---- MODULE Spec2Model ----
(***************************************************************************)
(* Model of the focus-pomodoro timer: the PomodoroTimer class of           *)
(* src/scripts/pomodoroTimer.js and the tick worker (timer.worker.js).     *)
(*                                                                         *)
(* The page's event loop runs one handler at a time, so every handler      *)
(* (click listener, worker message, timeout callback) is one action.  The  *)
(* worker is a second event loop: its onmessage handler and its interval   *)
(* callback are actions of their own, and the two loops talk through two   *)
(* message channels (toWorker, ticks).                                     *)
(***************************************************************************)
EXTENDS Integers, Sequences, FiniteSets

VARIABLES
    settings,          \* this.settings (durations and auto-start flags)
    sessions,          \* this.sessions[kind].minutes
    currentSession,    \* this.currentSession
    totalSeconds,      \* this.totalSeconds
    remainingSeconds,  \* this.remainingSeconds
    isRunning,         \* this.isRunning
    pomodorosInCycle,  \* this.pomodorosInCycle
    totalPomodoros,    \* this.totalPomodoros
    currentStreak,     \* this.currentStreak
    history,           \* this.history, newest first
    autoMode,          \* this.autoModeCheckbox.checked
    pending,           \* the 3-second timeouts set by sessionComplete, oldest first
    toWorker,          \* messages posted to the worker and not yet handled
    ticks,             \* TICK messages posted by the worker and not yet handled
    workerRunning,     \* the worker's isRunning
    intervalId,        \* the worker's intervalId: TRUE when it holds a handle
    intervals,         \* the intervals the worker has set and not cleared
    storedHistory,     \* localStorage['pomodoro-history']
    loadFailed,        \* TRUE when loadHistory threw and the constructor ended there
    totalPomodorosEl,  \* totalPomodorosEl.textContent
    totalMinutesEl,    \* totalMinutesEl.textContent
    now                \* the wall clock read by new Date()

timerVars   == <<currentSession, totalSeconds, remainingSeconds, isRunning>>
cycleVars   == <<pomodorosInCycle, totalPomodoros, currentStreak>>
configVars  == <<settings, sessions, autoMode>>
workerVars  == <<workerRunning, intervalId, intervals>>
statsVars   == <<totalPomodorosEl, totalMinutesEl>>
historyVars == <<history, storedHistory, loadFailed, statsVars>>
vars == <<settings, sessions, currentSession, totalSeconds, remainingSeconds,
          isRunning, pomodorosInCycle, totalPomodoros, currentStreak, history,
          autoMode, pending, toWorker, ticks, workerRunning, intervalId,
          intervals, storedHistory, loadFailed, totalPomodorosEl,
          totalMinutesEl, now>>

----------------------------------------------------------------------------
(* Bounds of the exploration.                                              *)

\* Clock ticks that make up one catalog minute.  The source multiplies by 60;
\* the model counts time in a coarser unit so that a session expires within
\* the explored depth.
TicksPerMinute == 1
\* Most pomodoros completed in one run.
MaxPomodoros == 5
\* Most entries the history holds before it is cleared.
MaxHistory == 1
\* Most messages waiting in the worker's queue.
MaxInbox == 1
\* Most TICK messages waiting in the page's queue.
MaxTicks == 1
\* Most 3-second timeouts waiting to fire.
MaxPending == 2
\* Length of a calendar day, and the last instant of the clock.
DayLength == 2
MaxNow == 3
MaxStored == 2

----------------------------------------------------------------------------
(* The session catalog (constructor, lines 56-62).                         *)

Kinds == {"pomodoro", "long-focus", "short-break", "long-break", "refocus-2"}

LongFocusMinutes == 50
RefocusMinutes == 2
CycleLength == 4

SessionType(kind) ==
    IF kind \in {"short-break", "long-break"} THEN "break" ELSE "work"

Catalog(s) ==
    [k \in Kinds |->
        CASE k = "pomodoro"    -> s.pomodoro
          [] k = "long-focus"  -> LongFocusMinutes
          [] k = "short-break" -> s.shortBreak
          [] k = "long-break"  -> s.longBreak
          [] k = "refocus-2"   -> RefocusMinutes]

SessionSeconds(cat, kind) == cat[kind] * TicksPerMinute

Minutes == {1, 2}

SettingsValues ==
    [pomodoro : Minutes, shortBreak : Minutes, longBreak : Minutes,
     autoStartBreaks : BOOLEAN, autoStartPomodoros : BOOLEAN]

----------------------------------------------------------------------------
(* History (addToHistory, lines 450-468).                                  *)

\* mutant: the entry records the minutes the session ran with
EntryAsRun(cat, kind, t) ==
    [session |-> kind, timestamp |-> t,
     duration |-> totalSeconds \div TicksPerMinute]

StartOfDay(t) == t - (t % DayLength)

Entry(cat, kind, t) == [session |-> kind, timestamp |-> t, duration |-> cat[kind]]

TodayOnly(h, t) == SelectSeq(h, LAMBDA e : e.timestamp >= StartOfDay(t))

\* mutant: addToHistory without the filter of lines 462-463
AddToHistoryUnpruned(h, cat, kind, t) == <<Entry(cat, kind, t)>> \o h

AddToHistory(h, cat, kind, t) == TodayOnly(<<Entry(cat, kind, t)>> \o h, t)

\* What localStorage holds under 'pomodoro-history': nothing, the text that
\* JSON.stringify made of a history, or a text that is not JSON.
Absent == [text |-> "absent", value |-> <<>>]
Malformed == [text |-> "malformed", value |-> <<>>]

\* saveHistory, lines 540-542
JSONStringify(h) == [text |-> "json", value |-> h]

\* JSON.parse throws a SyntaxError on a text that is not JSON (line 532)
ParseThrows(saved) == saved.text = "malformed"

\* loadHistory, lines 529-535, when it returns
LoadHistory(saved) == IF saved.text = "absent" THEN <<>> ELSE saved.value

\* updateStats, lines 506-507: the filter and the reduce
WorkSessions(h) == SelectSeq(h, LAMBDA e : SessionType(e.session) = "work")

RECURSIVE Reduce(_, _)
Reduce(h, sum) == IF h = <<>> THEN sum ELSE Reduce(Tail(h), sum + Head(h).duration)

\* mutant: the minutes of the work sessions only
TotalWorkMinutes(h) == Reduce(WorkSessions(h), 0)

TotalMinutes(h) == Reduce(h, 0)

\* updateStats, lines 505-512
UpdateStats(h) ==
    /\ totalPomodorosEl' = Len(WorkSessions(h))
    /\ totalMinutesEl' = TotalMinutes(h)

----------------------------------------------------------------------------
(* Session completion (sessionComplete, lines 248-308).                    *)

\* mutant: every work session advances the counters
CountsEveryWork(kind) == SessionType(kind) = "work"

\* lines 268-275: only a completed pomodoro advances the counters
CountsInCycle(kind) == SessionType(kind) = "work" /\ kind = "pomodoro"

\* lines 271-273: the ++ applied to each of the three counters
Incremented(kind, n) == IF CountsInCycle(kind) THEN n + 1 ELSE n

\* mutant: either flag starts the next session, whatever was completed
AutoStartAnyFlag(kind, s, legacy) ==
    s.autoStartBreaks \/ s.autoStartPomodoros \/ legacy

\* lines 286-297: the auto-start decision
AutoStart(kind, s, legacy) ==
    LET isWork == SessionType(kind) = "work" IN
    IF isWork /\ s.autoStartBreaks THEN TRUE
    ELSE IF ~isWork /\ s.autoStartPomodoros THEN TRUE
    ELSE legacy

\* lines 299-307: the timeout that is set
Deferred(kind, s, legacy) == IF AutoStart(kind, s, legacy) THEN "start" ELSE "setup"

\* The whole of sessionComplete; its callers say what happens to ticks.
SessionComplete ==
    /\ Len(toWorker) < MaxInbox
    /\ Len(pending) < MaxPending
    /\ Len(TodayOnly(history, now)) < MaxHistory
    /\ CountsInCycle(currentSession) => totalPomodoros < MaxPomodoros
    /\ isRunning' = FALSE
    /\ toWorker' = Append(toWorker, "RESET")
    /\ remainingSeconds' = 0
    /\ history' = AddToHistory(history, sessions, currentSession, now)
    /\ storedHistory' = JSONStringify(history')
    /\ UpdateStats(history')
    /\ UNCHANGED loadFailed
    /\ pomodorosInCycle' = Incremented(currentSession, pomodorosInCycle)
    /\ totalPomodoros' = Incremented(currentSession, totalPomodoros)
    /\ currentStreak' = Incremented(currentSession, currentStreak)
    /\ pending' = Append(pending, Deferred(currentSession, settings, autoMode))
    /\ UNCHANGED <<currentSession, totalSeconds, configVars, workerVars, now>>

----------------------------------------------------------------------------
(* The next session (prepareNextSession, lines 331-368).                   *)

\* mutant: the long break comes one pomodoro late
NextSessionLate(kind, inCycle) ==
    IF kind = "pomodoro"
    THEN IF inCycle > CycleLength THEN "long-break" ELSE "short-break"
    ELSE IF kind = "long-focus" THEN "long-break"
    ELSE "pomodoro"

\* mutant: a long focus is followed by a short break
NextSessionShort(kind, inCycle) ==
    IF kind = "pomodoro"
    THEN IF inCycle >= CycleLength THEN "long-break" ELSE "short-break"
    ELSE IF kind = "long-focus" THEN "short-break"
    ELSE "pomodoro"

NextSession(kind, inCycle) ==
    IF kind = "pomodoro"
    THEN IF inCycle >= CycleLength THEN "long-break" ELSE "short-break"
    ELSE IF kind = "short-break" \/ kind = "long-break" THEN "pomodoro"
    ELSE IF kind = "long-focus" THEN "long-break"
    ELSE IF kind = "refocus-2" THEN "pomodoro"
    ELSE "pomodoro"

\* mutant: the counter is reset only when it is exactly 4
CycleAfterPrepareExact(kind, inCycle) ==
    IF kind = "pomodoro" /\ inCycle = CycleLength THEN 0 ELSE inCycle

\* mutant: the counter is reset after every pomodoro
CycleAfterPrepareAlways(kind, inCycle) ==
    IF kind = "pomodoro" THEN 0 ELSE inCycle

\* lines 336-339: the reset that comes with the long break
CycleAfterPrepare(kind, inCycle) ==
    IF kind = "pomodoro" /\ inCycle >= CycleLength THEN 0 ELSE inCycle

PrepareNextSession ==
    LET nextSession == NextSession(currentSession, pomodorosInCycle) IN
    /\ pomodorosInCycle' = CycleAfterPrepare(currentSession, pomodorosInCycle)
    /\ currentSession' = nextSession
    /\ totalSeconds' = SessionSeconds(sessions, nextSession)
    /\ remainingSeconds' = totalSeconds'

----------------------------------------------------------------------------
(* The page's handlers.                                                    *)

\* startTimer, lines 194-202
StartTimer ==
    /\ Len(toWorker) < MaxInbox
    /\ isRunning' = TRUE
    /\ toWorker' = Append(toWorker, "START")

\* pauseTimer, lines 207-215
PauseTimer ==
    /\ Len(toWorker) < MaxInbox
    /\ isRunning' = FALSE
    /\ toWorker' = Append(toWorker, "PAUSE")

\* toggleTimer, lines 183-189: the start button's click
ToggleTimer ==
    /\ IF isRunning THEN PauseTimer ELSE StartTimer
    /\ UNCHANGED <<currentSession, totalSeconds, remainingSeconds, cycleVars,
                   configVars, historyVars, pending, ticks, workerVars, now>>

\* mutant: resetTimer without line 229, the countdown left where it was
ResetTimerStale ==
    /\ Len(toWorker) < MaxInbox
    /\ isRunning' = FALSE
    /\ toWorker' = Append(toWorker, "RESET")
    /\ UNCHANGED <<currentSession, totalSeconds, remainingSeconds, cycleVars,
                   configVars, historyVars, pending, ticks, workerVars, now>>

\* resetTimer, lines 220-234: the reset button's click
ResetTimer ==
    /\ Len(toWorker) < MaxInbox
    /\ isRunning' = FALSE
    /\ toWorker' = Append(toWorker, "RESET")
    /\ remainingSeconds' = totalSeconds
    /\ UNCHANGED <<currentSession, totalSeconds, cycleVars, configVars,
                   historyVars, pending, ticks, workerVars, now>>

\* mutant: skipSession without its isRunning test
SkipSessionAlways == SessionComplete /\ UNCHANGED ticks

\* skipSession, lines 239-243: the skip button's click
SkipSession ==
    IF ~isRunning
    THEN SessionComplete /\ UNCHANGED ticks
    ELSE UNCHANGED vars

\* changeMode, lines 164-178
ChangeMode(mode) ==
    /\ currentSession' = mode
    /\ totalSeconds' = SessionSeconds(sessions, mode)
    /\ remainingSeconds' = totalSeconds'

\* mutant: the listener without its isRunning test
ModeButtonAlways(mode) ==
    /\ ChangeMode(mode)
    /\ UNCHANGED <<isRunning, cycleVars, configVars, historyVars, pending,
                   toWorker, ticks, workerVars, now>>

\* the mode buttons' click listener, lines 127-134
ModeButton(mode) ==
    IF ~isRunning
    THEN /\ ChangeMode(mode)
         /\ UNCHANGED <<isRunning, cycleVars, configVars, historyVars, pending,
                        toWorker, ticks, workerVars, now>>
    ELSE UNCHANGED vars

\* mutant: handleWorkerMessage completing one second early
HandleWorkerMessageEarly ==
    /\ ticks > 0
    /\ ticks' = ticks - 1
    /\ IF remainingSeconds - 1 <= 1
       THEN SessionComplete
       ELSE /\ remainingSeconds' = remainingSeconds - 1
            /\ UNCHANGED <<currentSession, totalSeconds, isRunning, cycleVars,
                           configVars, historyVars, pending, toWorker,
                           workerVars, now>>

\* handleWorkerMessage, lines 147-159: a TICK arrives
HandleWorkerMessage ==
    /\ ticks > 0
    /\ ticks' = ticks - 1
    /\ IF remainingSeconds - 1 <= 0
       THEN SessionComplete
       ELSE /\ remainingSeconds' = remainingSeconds - 1
            /\ UNCHANGED <<currentSession, totalSeconds, isRunning, cycleVars,
                           configVars, historyVars, pending, toWorker,
                           workerVars, now>>

\* setupNextSession, lines 310-317: the timeout of line 304 fires
SetupNextSession ==
    /\ pending # <<>>
    /\ Head(pending) = "setup"
    /\ pending' = Tail(pending)
    /\ PrepareNextSession
    /\ UNCHANGED <<isRunning, totalPomodoros, currentStreak, configVars,
                   historyVars, toWorker, ticks, workerVars, now>>

\* startNextSession, lines 319-329: the timeout of line 300 fires
StartNextSession ==
    /\ pending # <<>>
    /\ Head(pending) = "start"
    /\ pending' = Tail(pending)
    /\ PrepareNextSession
    /\ StartTimer
    /\ UNCHANGED <<totalPomodoros, currentStreak, configVars, historyVars,
                   ticks, workerVars, now>>

\* mutant: saveSettingsFromModal without its isRunning test of line 594
SaveSettingsAlways(s) ==
    /\ settings' = s
    /\ sessions' = [sessions EXCEPT !["pomodoro"] = s.pomodoro,
                                    !["short-break"] = s.shortBreak,
                                    !["long-break"] = s.longBreak]
    /\ totalSeconds' = SessionSeconds(sessions', currentSession)
    /\ remainingSeconds' = totalSeconds'
    /\ UNCHANGED <<currentSession, isRunning, cycleVars, autoMode, historyVars,
                   pending, toWorker, ticks, workerVars, now>>

\* saveSettingsFromModal, lines 577-600
SaveSettingsFromModal(s) ==
    /\ settings' = s
    /\ sessions' = [sessions EXCEPT !["pomodoro"] = s.pomodoro,
                                    !["short-break"] = s.shortBreak,
                                    !["long-break"] = s.longBreak]
    /\ IF ~isRunning
       THEN /\ totalSeconds' = SessionSeconds(sessions', currentSession)
            /\ remainingSeconds' = totalSeconds'
       ELSE UNCHANGED <<totalSeconds, remainingSeconds>>
    /\ UNCHANGED <<currentSession, isRunning, cycleVars, autoMode, historyVars,
                   pending, toWorker, ticks, workerVars, now>>

\* clearHistory, lines 517-524, once the user has confirmed
ClearHistory ==
    /\ history' = <<>>
    /\ storedHistory' = JSONStringify(history')
    /\ UpdateStats(history')
    /\ UNCHANGED loadFailed
    /\ UNCHANGED <<timerVars, cycleVars, configVars, pending, toWorker, ticks,
                   workerVars, now>>

\* the user ticks or unticks the auto-mode checkbox (read at line 294)
AutoModeClick ==
    /\ autoMode' = ~autoMode
    /\ UNCHANGED <<settings, sessions, timerVars, cycleVars, historyVars,
                   pending, toWorker, ticks, workerVars, now>>

----------------------------------------------------------------------------
(* The worker (timer.worker.js).                                           *)

\* mutant: case 'START' without its test of line 9
OnStartAlways ==
    /\ workerRunning' = TRUE
    /\ intervalId' = TRUE
    /\ intervals' = intervals + 1

\* case 'START', lines 8-15
OnStart ==
    IF ~workerRunning
    THEN /\ workerRunning' = TRUE
         /\ intervalId' = TRUE
         /\ intervals' = intervals + 1
    ELSE UNCHANGED workerVars

\* clearInterval(intervalId) under if (intervalId), lines 19-22 and 27-30
ClearInterval ==
    IF intervalId
    THEN intervalId' = FALSE /\ intervals' = intervals - 1
    ELSE UNCHANGED <<intervalId, intervals>>

\* case 'PAUSE', lines 16-24
OnPause ==
    IF workerRunning
    THEN workerRunning' = FALSE /\ ClearInterval
    ELSE UNCHANGED workerVars

\* mutant: case 'RESET' without line 26, the flag left as it was
OnResetKeepsFlag == UNCHANGED workerRunning /\ ClearInterval

\* case 'RESET', lines 25-31
OnReset == workerRunning' = FALSE /\ ClearInterval

\* self.onmessage, lines 4-33
WorkerOnMessage ==
    /\ toWorker # <<>>
    /\ toWorker' = Tail(toWorker)
    /\ CASE Head(toWorker) = "START" -> OnStart
         [] Head(toWorker) = "PAUSE" -> OnPause
         [] Head(toWorker) = "RESET" -> OnReset
    /\ UNCHANGED <<timerVars, cycleVars, configVars, historyVars, pending,
                   ticks, now>>

\* a message event reaches the worker from whoever holds it (line 4)
ClientPost(m) ==
    /\ Len(toWorker) < MaxInbox
    /\ toWorker' = Append(toWorker, m)
    /\ UNCHANGED <<timerVars, cycleVars, configVars, historyVars, pending,
                   ticks, workerVars, now>>

\* the interval's callback, lines 11-13
WorkerInterval ==
    /\ intervals > 0
    /\ ticks < MaxTicks
    /\ ticks' = ticks + 1
    /\ UNCHANGED <<timerVars, cycleVars, configVars, historyVars, pending,
                   toWorker, workerVars, now>>

\* time passes
AdvanceClock ==
    /\ now < MaxNow
    /\ now' = now + 1
    /\ UNCHANGED <<timerVars, cycleVars, configVars, historyVars, pending,
                   toWorker, ticks, workerVars>>

----------------------------------------------------------------------------
(* The state after construction (constructor, lines 9-97).                 *)

Constructed(s, legacy, saved, t) ==
    /\ settings = s
    /\ sessions = Catalog(s)
    /\ currentSession = "pomodoro"
    /\ totalSeconds = SessionSeconds(Catalog(s), "pomodoro")
    /\ remainingSeconds = totalSeconds
    /\ isRunning = FALSE
    /\ pomodorosInCycle = 0
    /\ totalPomodoros = 0
    /\ currentStreak = 0
    /\ storedHistory = saved
    /\ loadFailed = ParseThrows(saved)
    /\ history = (IF ParseThrows(saved) THEN <<>> ELSE LoadHistory(saved))
    /\ totalPomodorosEl = 0
    /\ totalMinutesEl = 0
    /\ autoMode = legacy
    /\ pending = <<>>
    /\ toWorker = <<>>
    /\ ticks = 0
    /\ workerRunning = FALSE
    /\ intervalId = FALSE
    /\ intervals = 0
    /\ now = t

\* Settings found in localStorage and overlaid on the defaults of lines 43-50
\* by loadSettings: short durations, the default auto-start flags.
SavedSettings ==
    [pomodoro |-> 2, shortBreak |-> 1, longBreak |-> 1,
     autoStartBreaks |-> FALSE, autoStartPomodoros |-> FALSE]

Init ==
    \E legacy \in BOOLEAN : Constructed(SavedSettings, legacy, Absent, DayLength)

\* The page and the worker, every interleaving of the handlers.  The mode
\* buttons offer every kind but long-focus, whose countdown is the longest.
Next ==
    \/ ToggleTimer
    \/ ResetTimer
    \/ SkipSession
    \/ \E mode \in Kinds \ {"long-focus"} : ModeButton(mode)
    \/ HandleWorkerMessage
    \/ SetupNextSession
    \/ StartNextSession
    \/ ClearHistory
    \/ WorkerOnMessage
    \/ WorkerInterval

Spec == Init /\ [][Next]_vars

\* The user's clicks alone, on every mode and under every auto-start policy;
\* the user is quicker than the worker's interval, so no TICK is posted.
ManualInit ==
    \E s \in SettingsValues, legacy \in BOOLEAN :
        /\ s.pomodoro = 1 /\ s.shortBreak = 1 /\ s.longBreak = 2
        /\ Constructed(s, legacy, Absent, DayLength)

ManualNext ==
    \/ ToggleTimer
    \/ ResetTimer
    \/ SkipSession
    \/ \E mode \in Kinds : ModeButton(mode)
    \/ SetupNextSession
    \/ StartNextSession
    \/ ClearHistory
    \/ AutoModeClick
    \/ WorkerOnMessage

ManualSpec == ManualInit /\ [][ManualNext]_vars

\* Sessions completed in the normal order: no session completes while the
\* timeout of the previous completion is still waiting.
ScenarioInit ==
    \E s \in SettingsValues, legacy \in BOOLEAN :
        Constructed(s, legacy, Absent, DayLength)

ScenarioNext ==
    \/ ToggleTimer
    \/ pending = <<>> /\ SkipSession
    \/ pending = <<>> /\ HandleWorkerMessage
    \/ SetupNextSession
    \/ StartNextSession
    \/ ClearHistory
    \/ WorkerOnMessage
    \/ WorkerInterval

ScenarioSpec == ScenarioInit /\ [][ScenarioNext]_vars

\* The settings modal: durations are saved between and during countdowns.
\* The values the modal's inputs hold when it is saved (lines 578-582).
ModalValues ==
    {s \in SettingsValues :
        ~s.autoStartBreaks /\ ~s.autoStartPomodoros /\ s.longBreak = 1}

SettingsInit == Constructed(SavedSettings, FALSE, Absent, DayLength)

SettingsNext ==
    \/ ToggleTimer
    \/ HandleWorkerMessage
    \/ SetupNextSession
    \/ ClearHistory
    \/ WorkerOnMessage
    \/ WorkerInterval
    \/ \E s \in ModalValues : SaveSettingsFromModal(s)

SettingsSpec == SettingsInit /\ [][SettingsNext]_vars

\* The history store: the page is opened on what an earlier visit, on the
\* same day or on an earlier one, left under 'pomodoro-history'.
StoredEntries(t) ==
    {Entry(Catalog(SavedSettings), kind, ts) :
        kind \in {"pomodoro", "short-break"}, ts \in 0..t}

\* unshift puts every new entry at the head (line 459)
NewestFirst(h) ==
    \A i, j \in 1..Len(h) : i < j => h[i].timestamp >= h[j].timestamp

StoredHistories(t) ==
    {h \in UNION {[1..n -> StoredEntries(t)] : n \in 0..MaxStored} :
        NewestFirst(h)}

StoredRecords(t) ==
    {Absent, Malformed} \cup {JSONStringify(h) : h \in StoredHistories(t)}

HistoryInit ==
    \E saved \in StoredRecords(DayLength) :
        Constructed(SavedSettings, FALSE, saved, DayLength)

\* init(), called at line 96 after loadHistory, attaches the listeners
Usable == ~loadFailed

HistoryNext ==
    \/ Usable /\ SkipSession
    \/ SetupNextSession
    \/ Usable /\ ClearHistory
    \/ WorkerOnMessage
    \/ AdvanceClock

HistorySpec == HistoryInit /\ [][HistoryNext]_vars

\* The worker on its own terms: it is sent START, PAUSE and RESET in any
\* order, while the page counts the ticks it posts.
WorkerNext ==
    \/ \E m \in {"START", "PAUSE", "RESET"} : ClientPost(m)
    \/ WorkerOnMessage
    \/ WorkerInterval
    \/ HandleWorkerMessage
    \/ SetupNextSession
    \/ ClearHistory

WorkerSpec == SettingsInit /\ [][WorkerNext]_vars

\* The pause after a completion: sessions complete in the normal order, and
\* the reset and mode buttons are clicked at any time, the 3 seconds of the
\* timeout included.
WindowNext ==
    \/ ToggleTimer
    \/ ResetTimer
    \/ \E mode \in Kinds \ {"long-focus"} : ModeButton(mode)
    \/ pending = <<>> /\ SkipSession
    \/ pending = <<>> /\ HandleWorkerMessage
    \/ SetupNextSession
    \/ StartNextSession
    \/ ClearHistory
    \/ WorkerOnMessage
    \/ WorkerInterval

WindowSpec == Init /\ [][WindowNext]_vars

\* Countdowns left to run: the user starts the timer and never pauses,
\* resets, skips or resizes it. The two event loops and the timers are fair:
\* a posted message is dispatched, a set interval fires, a timeout fires.
LiveNext ==
    \/ ~isRunning /\ ToggleTimer
    \/ HandleWorkerMessage
    \/ SetupNextSession
    \/ StartNextSession
    \/ ClearHistory
    \/ WorkerOnMessage
    \/ WorkerInterval

Fairness ==
    /\ WF_vars(HandleWorkerMessage)
    /\ WF_vars(SetupNextSession)
    /\ WF_vars(StartNextSession)
    /\ WF_vars(WorkerOnMessage)
    /\ WF_vars(WorkerInterval)

LiveSpec == Init /\ [][LiveNext]_vars /\ Fairness

----------------------------------------------------------------------------
(* Properties.                                                             *)

\* A step in which sessionComplete ran: it alone sets a timeout.
CompletionStep == Len(pending') = Len(pending) + 1

\* A step in which a timeout of sessionComplete fired.
DeferredStep == Len(pending') = Len(pending) - 1

\* C1: pomodorosInCycle is an integer between 0 and 4 in every state reached
\* by any interleaving of the handlers, the TICKs and the deferred actions.
C1_CycleInRange == pomodorosInCycle \in 0..CycleLength

\* C2: from a fresh state, with sessions completed in the normal order, every
\* one of the first three pomodoros is followed by a short break; after the 4th
\* pomodoro and its deferred action the session is long-break, with
\* pomodorosInCycle 0 and totalPomodoros 4; once the 5th pomodoro is complete
\* pomodorosInCycle is 1.
C2_NormalCycle ==
    /\ (totalPomodoros \in 1..3 /\ currentSession # "pomodoro")
          => (currentSession = "short-break" /\ pomodorosInCycle = totalPomodoros)
    /\ (totalPomodoros = 4 /\ currentSession # "pomodoro")
          => (currentSession = "long-break" /\ pomodorosInCycle = 0)
    /\ (totalPomodoros = 4 /\ currentSession = "pomodoro")
          => pomodorosInCycle = (IF pending = <<>> THEN 0 ELSE 4)
    /\ totalPomodoros = 5 => pomodorosInCycle = 1

\* the 5th pomodoro is complete and its short break is armed
C2_Witness ==
    totalPomodoros = 5 /\ pomodorosInCycle = 1 /\ currentSession = "short-break"

C4_AsClaimed ==
    [][(pomodorosInCycle # 0 /\ pomodorosInCycle' = 0)
          => /\ CompletionStep
             /\ totalPomodoros' = totalPomodoros + 1
             /\ currentStreak' = currentStreak + 1]_vars

\* C4 as amended: pomodorosInCycle changes in two kinds of step only.  The
\* completion of a pomodoro adds 1 to it, to totalPomodoros and to
\* currentStreak and never resets it; the deferred action that runs on a
\* pomodoro with pomodorosInCycle >= 4 resets it to 0 and leaves the other two
\* counters alone.  States with pomodorosInCycle = 4 lie between the two.
C4_ResetIsDeferred ==
    [][pomodorosInCycle' # pomodorosInCycle
          => \/ /\ CompletionStep /\ currentSession = "pomodoro"
                /\ pomodorosInCycle' = pomodorosInCycle + 1
                /\ totalPomodoros' = totalPomodoros + 1
                /\ currentStreak' = currentStreak + 1
             \/ /\ DeferredStep /\ currentSession = "pomodoro"
                /\ pomodorosInCycle >= CycleLength
                /\ pomodorosInCycle' = 0
                /\ UNCHANGED <<totalPomodoros, currentStreak>>]_vars

\* the 4th pomodoro is complete and the counter shows 4 until the timeout fires
C4_Witness ==
    /\ pomodorosInCycle = CycleLength /\ totalPomodoros = 4
    /\ currentSession = "pomodoro" /\ remainingSeconds = 0
    /\ pending # <<>>

\* The next session as the claim C5 tabulates it.
C5_Table(kind, inCycle) ==
    CASE kind = "pomodoro" ->
            IF inCycle >= 4 THEN "long-break" ELSE "short-break"
      [] kind \in {"short-break", "long-break"} -> "pomodoro"
      [] kind = "long-focus" -> "long-break"
      [] kind = "refocus-2" -> "pomodoro"

\* C5: the deferred action sets the session that the table gives for the
\* session it finds and pomodorosInCycle, with totalSeconds and
\* remainingSeconds both the catalog minutes of the new session.
C5_NextSession ==
    [][DeferredStep
          => /\ currentSession' = C5_Table(currentSession, pomodorosInCycle)
             /\ totalSeconds' = sessions[currentSession'] * TicksPerMinute
             /\ remainingSeconds' = totalSeconds']_vars

\* a long focus was completed and its long break is set up
C5_Witness ==
    /\ history # <<>> /\ Head(history).session = "long-focus"
    /\ currentSession = "long-break" /\ pending = <<>>
    /\ remainingSeconds = totalSeconds
    /\ totalSeconds = sessions["long-break"] * TicksPerMinute

\* C6: a completion of long-focus, refocus-2, short-break or long-break leaves
\* the three counters unchanged; a completion of a pomodoro adds 1 to each.
C6_OnlyPomodoroCounts ==
    [][CompletionStep
          => IF currentSession = "pomodoro"
             THEN /\ pomodorosInCycle' = pomodorosInCycle + 1
                  /\ totalPomodoros' = totalPomodoros + 1
                  /\ currentStreak' = currentStreak + 1
             ELSE UNCHANGED cycleVars]_vars

\* a long focus was completed after one pomodoro and the counters still show 1
C6_Witness ==
    /\ history # <<>> /\ Head(history).session = "long-focus"
    /\ currentSession = "long-focus" /\ remainingSeconds = 0 /\ pending # <<>>
    /\ pomodorosInCycle = 1 /\ totalPomodoros = 1 /\ currentStreak = 1

\* A step in which handleWorkerMessage handled a TICK.
TickStep == ticks' = ticks - 1

\* The first half of C7: remainingSeconds stays within 0..totalSeconds.
RemainingInRange == 0 <= remainingSeconds /\ remainingSeconds <= totalSeconds

\* C7: 0 <= remainingSeconds <= totalSeconds in every state, and every TICK
\* the timer handles lowers remainingSeconds by exactly 1.
C7_TickLowersByOne ==
    /\ []RemainingInRange
    /\ [][TickStep => remainingSeconds' = remainingSeconds - 1]_vars

\* The auto-start policy as the claim C8 states it, for a completed session
\* of this kind under these flags.
C8_Policy(kind, s, legacy) ==
    \/ kind \in {"pomodoro", "long-focus", "refocus-2"} /\ s.autoStartBreaks
    \/ kind \in {"short-break", "long-break"} /\ s.autoStartPomodoros
    \/ legacy

\* C8: a completion stops the timer and sets the timeout that starts the next
\* session exactly when the policy says so (the flag of the completed
\* session's own category, or the legacy toggle), and the timeout that only
\* arms it otherwise.  When the timeout fires, the next session has
\* remainingSeconds = totalSeconds; the starting one leaves it running, the
\* arming one leaves a timer that is not running not running.
C8_AutoStartPolicy ==
    [][/\ CompletionStep
          => /\ ~isRunning'
             /\ pending' = Append(pending,
                   IF C8_Policy(currentSession, settings, autoMode)
                   THEN "start" ELSE "setup")
       /\ (DeferredStep /\ Head(pending) = "start")
          => (isRunning' /\ remainingSeconds' = totalSeconds')
       /\ (DeferredStep /\ Head(pending) = "setup" /\ ~isRunning)
          => (~isRunning' /\ remainingSeconds' = totalSeconds')]_vars

\* a break was completed with only autoStartBreaks set: the pomodoro that
\* follows is armed and not running
C8_Witness ==
    /\ settings.autoStartBreaks /\ ~settings.autoStartPomodoros /\ ~autoMode
    /\ history # <<>> /\ Head(history).session = "short-break"
    /\ currentSession = "pomodoro" /\ pending = <<>>
    /\ ~isRunning /\ remainingSeconds = totalSeconds
    /\ toWorker = <<>> /\ ~workerRunning

\* C9: a click on a mode button while the timer is running leaves
\* currentSession, totalSeconds, remainingSeconds and isRunning unchanged;
\* while it is not running it sets currentSession to the button's kind and
\* totalSeconds = remainingSeconds = that kind's catalog minutes, and leaves
\* the cycle counters, the history and isRunning unchanged.
C9_ChangeMode ==
    [][\A mode \in Kinds :
          ModeButton(mode)
          => IF isRunning
             THEN UNCHANGED timerVars
             ELSE /\ currentSession' = mode
                  /\ totalSeconds' = sessions[mode] * TicksPerMinute
                  /\ remainingSeconds' = totalSeconds'
                  /\ UNCHANGED <<isRunning, cycleVars, historyVars>>]_vars

\* long-focus was selected after a completed pomodoro: the counters and the
\* history are as the pomodoro left them
C9_Witness ==
    /\ currentSession = "long-focus" /\ ~isRunning /\ pending = <<>>
    /\ totalSeconds = LongFocusMinutes * TicksPerMinute
    /\ remainingSeconds = totalSeconds
    /\ pomodorosInCycle = 1 /\ totalPomodoros = 1
    /\ history # <<>> /\ Head(history).session = "pomodoro"

\* What sessionComplete does to the page's state, as the claim C10 states it.
C10_Completed ==
    /\ remainingSeconds' = 0
    /\ ~isRunning'
    /\ history' = <<[session |-> currentSession, timestamp |-> now,
                     duration |-> sessions[currentSession]]>> \o history
    /\ IF currentSession = "pomodoro"
       THEN /\ pomodorosInCycle' = pomodorosInCycle + 1
            /\ totalPomodoros' = totalPomodoros + 1
            /\ currentStreak' = currentStreak + 1
       ELSE UNCHANGED cycleVars
    /\ UNCHANGED <<currentSession, totalSeconds>>

\* C10: skipSession while running changes nothing; while not running it
\* changes the state as the TICK that ends the session does: remainingSeconds
\* becomes 0, one entry of the current kind is put at the head of the history
\* with the catalog's minutes as its duration, and a pomodoro advances the
\* three counters by 1.
C10_SkipIsCompletion ==
    [][/\ (SkipSession /\ isRunning) => UNCHANGED vars
       /\ (SkipSession /\ ~isRunning) => (CompletionStep /\ C10_Completed)
       /\ (TickStep /\ remainingSeconds - 1 <= 0)
          => (CompletionStep /\ C10_Completed)]_vars

\* a pomodoro of 2 minutes was skipped: nothing was ever posted by the worker,
\* and the entry's duration is the 2 configured minutes
C10_Witness ==
    /\ totalSeconds = 2 * TicksPerMinute /\ remainingSeconds = 0 /\ ~isRunning
    /\ history = <<[session |-> "pomodoro", timestamp |-> now, duration |-> 2]>>
    /\ pomodorosInCycle = 1 /\ totalPomodoros = 1 /\ currentStreak = 1
    /\ toWorker = <<"RESET">> /\ ~workerRunning /\ ticks = 0

\* C11: a reset, from any state, leaves the timer not running with
\* remainingSeconds equal to totalSeconds and a RESET on its way to the tick
\* source, which stops on receiving it whatever its state; the reset leaves
\* currentSession, totalSeconds, the cycle counters and the history as they
\* were.
C11_Reset ==
    [][/\ ResetTimer =>
            /\ ~isRunning'
            /\ remainingSeconds' = totalSeconds'
            /\ toWorker' = Append(toWorker, "RESET")
            /\ UNCHANGED <<currentSession, totalSeconds, pomodorosInCycle,
                           totalPomodoros, currentStreak, history,
                           storedHistory>>
       /\ (WorkerOnMessage /\ Head(toWorker) = "RESET") =>
            ~workerRunning' /\ ~intervalId' /\ intervals' = 0]_vars

\* a reset in the pause after a completion, taken in by the tick source
C11_Witness ==
    /\ pending # <<>> /\ history # <<>>
    /\ Head(history).session = currentSession
    /\ ~isRunning /\ remainingSeconds = totalSeconds
    /\ toWorker = <<>> /\ ~workerRunning /\ intervals = 0

\* the minutes a saved settings value gives a kind of session
C12_Minutes(s, kind) ==
    CASE kind = "pomodoro" -> s.pomodoro
      [] kind = "short-break" -> s.shortBreak
      [] kind = "long-break" -> s.longBreak
      [] OTHER -> sessions[kind]

\* C12: saving the settings while the timer is not running sets totalSeconds
\* and remainingSeconds to the saved duration of the current kind of
\* session; saving them while it is running leaves both as they were, and the
\* saved duration is the one the next set-up of a session of that kind takes.
C12_SaveSettings ==
    [][/\ \A s \in ModalValues :
            SaveSettingsFromModal(s) =>
                /\ \A kind \in Kinds : sessions'[kind] = C12_Minutes(s, kind)
                /\ IF isRunning
                   THEN UNCHANGED <<totalSeconds, remainingSeconds>>
                   ELSE /\ totalSeconds' =
                              C12_Minutes(s, currentSession) * TicksPerMinute
                        /\ remainingSeconds' = totalSeconds'
       /\ DeferredStep =>
            /\ totalSeconds' =
                  C12_Minutes(settings, currentSession') * TicksPerMinute
            /\ remainingSeconds' = totalSeconds']_vars

\* a countdown whose length is no longer the one the settings give its kind
C12_Witness ==
    /\ isRunning /\ workerRunning
    /\ totalSeconds # sessions[currentSession] * TicksPerMinute
    /\ remainingSeconds < totalSeconds

C14_TodayOnly ==
    \A i \in 1..Len(history) :
        history[i].timestamp >= now - (now % DayLength)

\* C15: when nothing, or a text that is not JSON, is stored under
\* 'pomodoro-history', construction ends with an empty history and no
\* exception.
C15_LoadFailsSoft ==
    storedHistory.text \in {"absent", "malformed"} =>
        history = <<>> /\ ~loadFailed

RECURSIVE C16_Sum(_, _)
\* the sum of the durations of the first n entries of h
C16_Sum(h, n) == IF n = 0 THEN 0 ELSE C16_Sum(h, n - 1) + h[n].duration

C17_OneInterval ==
    /\ [](/\ intervals <= 1
          /\ intervalId <=> workerRunning
          /\ intervalId <=> intervals = 1)
    /\ [][(/\ WorkerOnMessage
           /\ \/ Head(toWorker) = "START" /\ workerRunning
              \/ Head(toWorker) = "PAUSE" /\ ~workerRunning) =>
                UNCHANGED <<workerVars, ticks>>]_vars

\* the worker at work, one interval set, with nothing left to take in
C17_Witness ==
    /\ workerRunning /\ intervalId /\ intervals = 1
    /\ toWorker = <<>> /\ ticks = MaxTicks /\ ~isRunning

\* C18: while isRunning is false no tick is applied: a TICK that arrives
\* then, one posted before the worker took in the PAUSE or RESET included,
\* changes neither remainingSeconds nor the history, the counters or the
\* pending timeouts, as a completion would.
C18_NoTickWhileStopped ==
    [][(TickStep /\ ~isRunning) =>
          UNCHANGED <<remainingSeconds, history, pomodorosInCycle,
                      totalPomodoros, currentStreak, pending>>]_vars

\* C19: when the reset button or a mode button has been clicked in the pause
\* after a completion (the countdown is no longer at the 0 the completion
\* left), the timeout of that completion, when it fires, leaves
\* currentSession, totalSeconds, remainingSeconds, pomodorosInCycle and
\* isRunning as the click left them.
C19_Superseded ==
    [][(DeferredStep /\ remainingSeconds # 0) =>
          UNCHANGED <<currentSession, totalSeconds, remainingSeconds,
                      pomodorosInCycle, isRunning>>]_vars

\* C20: whenever the worker has taken in every START, PAUSE and RESET the
\* page has posted, the page's isRunning equals the worker's isRunning.
C20_FlagsAgree == toWorker = <<>> => isRunning = workerRunning

\* a countdown under way, the worker started and a tick already counted
C20_Witness ==
    /\ toWorker = <<>> /\ isRunning /\ workerRunning
    /\ 0 < remainingSeconds /\ remainingSeconds < totalSeconds

\* C21: a session is completed at most once: no completion happens while the
\* timeout of an earlier completion is still waiting, so no second entry is
\* added and no counter raised again on its account, and at most one
\* timeout is waiting at any time.
C21_CompletedOnce ==
    /\ [](Len(pending) <= 1)
    /\ [][CompletionStep => pending = <<>>]_vars

\* The bounds of the model may leave no room for one more completion.
Capped ==
    \/ Len(TodayOnly(history, now)) >= MaxHistory
    \/ totalPomodoros >= MaxPomodoros

\* C22: a running countdown with remainingSeconds = n > 0 that is not
\* paused, reset or resized completes after exactly n ticks: with fair
\* delivery it reaches a completion (an entry in the history, the timer not
\* running), every tick before the last lowers remainingSeconds by 1 without
\* completing, and the tick that finds 1 completes.
C22_CompletesAfterN ==
    /\ (isRunning /\ remainingSeconds > 0 /\ ~Capped)
           ~> (~isRunning /\ remainingSeconds = 0 /\ history # <<>>)
    /\ [][(TickStep /\ isRunning /\ remainingSeconds > 0) =>
            IF remainingSeconds = 1
            THEN CompletionStep /\ remainingSeconds' = 0 /\ ~isRunning'
            ELSE /\ ~CompletionStep
                 /\ remainingSeconds' = remainingSeconds - 1
                 /\ UNCHANGED <<isRunning, history>>]_vars

\* the first pomodoro has run its two ticks and completed
C22_Witness ==
    /\ totalPomodoros = 1 /\ history # <<>>
    /\ ~isRunning /\ remainingSeconds = 0 /\ totalSeconds = 2
    /\ pending # <<>>

\* C23: the entry a completion adds to the history records the minutes the
\* settings give the session's kind at the moment of the completion: when
\* the settings were saved during the countdown, the new minutes and not
\* those the countdown was started with.
C23_DurationAtCompletion ==
    [][CompletionStep =>
        /\ history' # <<>>
        /\ Head(history').session = currentSession
        /\ Head(history').duration = C12_Minutes(settings, currentSession)]_vars

\* a completed countdown whose entry does not record the length it ran with
C23_Witness ==
    /\ history # <<>> /\ pending # <<>>
    /\ ~isRunning /\ remainingSeconds = 0
    /\ Head(history).session = currentSession
    /\ Head(history).duration * TicksPerMinute # totalSeconds

====
